---------------------------- MODULE Spec2Model ----------------------------
(***************************************************************************)
(* MCPTestClient (src/src/client/test-client.ts) and its error classes     *)
(* (src/src/client/errors.ts).                                             *)
(*                                                                         *)
(* Every async method is cut at its await points.  A call occupies a slot  *)
(* of its client from the invocation until the caller takes the settled    *)
(* promise (Return).  The SDK session (Client + StdioClientTransport) is   *)
(* the environment: the handshake, a request and close() each settle with  *)
(* one of the outcomes the SDK can produce.                                *)
(*                                                                         *)
(* Strings that are concatenated or searched are sequences of fragments:   *)
(* concatenation is \o and "contains" is a contiguous sub-sequence.        *)
(***************************************************************************)
EXTENDS Integers, Sequences, FiniteSets, TLC

(* ----------------------------- bounds ---------------------------------- *)

\* sessions one behaviour may create (over all clients)
MaxSessions == 2
\* tools a server declares
MaxTools == 2
\* characters of the text of a content item
MaxTextLen == 3

Clients == {"A", "B"}
\* the callers whose calls on one instance may overlap
Callers == {"p", "q"}

\* null / undefined
NULL == [t |-> "null"]
Undefined == [t |-> "undefined"]

(* ------------------------------ strings -------------------------------- *)

\* haystack.includes(needle) on fragment sequences
Contains(hay, needle) ==
  \E i \in 0..(Len(hay) - Len(needle)) :
    \A j \in 1..Len(needle) : hay[i + j] = needle[j]

\* Array.prototype.join
RECURSIVE JoinMut(_, _)
JoinMut(names, sep) ==
  IF Len(names) = 0 THEN <<>>
  ELSE IF Len(names) = 1 THEN <<names[1]>>
  ELSE JoinMut(Tail(names), sep) \o <<sep, Head(names)>>

RECURSIVE Join(_, _)
Join(names, sep) ==
  IF Len(names) = 0 THEN <<>>
  ELSE IF Len(names) = 1 THEN <<names[1]>>
  ELSE <<Head(names), sep>> \o Join(Tail(names), sep)

(* --------------------------- error classes ----------------------------- *)

\* { ...context, suggestion: context.suggestion || dflt }
WithSuggestion(context, dflt) ==
  IF "suggestion" \in DOMAIN context THEN context
  ELSE context @@ [suggestion |-> dflt]

ConnectionError(message, context) ==
  [name |-> "ConnectionError", code |-> "CONNECTION_FAILED",
   message |-> message,
   context |-> WithSuggestion(context, "check-command")]

ToolCallError(toolName, message, context) ==
  [name |-> "ToolCallError", code |-> "TOOL_CALL_FAILED",
   message |-> <<"Tool '", toolName, "' call failed: ">> \o message,
   context |-> WithSuggestion([toolName |-> toolName] @@ context, "check-params")]

ToolNotFoundError(toolName, availableTools) ==
  [name |-> "ToolNotFoundError", code |-> "TOOL_NOT_FOUND",
   message |-> <<"Tool '", toolName, "' not found. Available tools: ">>
                 \o (IF Len(availableTools) > 0
                     THEN Join(availableTools, ", ") ELSE <<"none">>),
   context |-> [toolName |-> toolName, availableTools |-> availableTools]]

AssertionError(message, context) ==
  [name |-> "AssertionError", code |-> "ASSERTION_FAILED",
   message |-> <<"Assertion failed: ">> \o message,
   context |-> context]

\* what the SDK throws: an Error instance, or some other value
SdkErrors ==
  { [inst |-> TRUE,  name |-> "McpError", message |-> <<"boom">>],
    [inst |-> FALSE, name |-> "",         message |-> <<"oops">>] }

\* error instanceof Error ? error.message : String(error)
OriginalMessage(error) == error.message

\* the codes of the taxonomy
MCPTestErrorCode ==
  { "CONNECTION_FAILED", "INITIALIZATION_FAILED", "TOOL_NOT_FOUND",
    "TOOL_CALL_FAILED", "VALIDATION_FAILED", "ASSERTION_FAILED", "TIMEOUT",
    "NOT_CONNECTED", "ALREADY_CONNECTED", "RESOURCE_NOT_FOUND",
    "PROMPT_NOT_FOUND" }

\* MCPTestError and its subclasses
MCPTestErrors ==
  { "MCPTestError", "ConnectionError", "InitializationError",
    "ToolNotFoundError", "ToolCallError", "ValidationError", "AssertionError",
    "TimeoutError", "ResourceNotFoundError", "PromptNotFoundError" }

\* error instanceof MCPTestError
isMCPTestError(error) ==
  /\ {"name", "code", "message", "context"} \subseteq DOMAIN error
  /\ error.name \in MCPTestErrors

\* the caught value rethrown as it is
toMCPTestErrorMut(error, defaultMessage) == error

toMCPTestError(error, defaultMessage) ==
  IF "code" \in DOMAIN error THEN error
  ELSE IF error.inst
    THEN [name |-> "MCPTestError", code |-> "ASSERTION_FAILED",
          message |-> error.message,
          context |-> [originalError |-> <<error.name>>]]
    ELSE [name |-> "MCPTestError", code |-> "ASSERTION_FAILED",
          message |-> defaultMessage,
          context |-> [originalError |-> error.message]]

AlreadyConnectedError ==
  ConnectionError(<<"Already connected", " to server">>, <<>>)

NotConnectedError ==
  ConnectionError(<<"Not connected", " to server. Call connect() first.">>, <<>>)

Command == "node"
Args == <<"server.js">>

FailedToConnectError(error) ==
  ConnectionError(<<"Failed to connect to server">>,
                  [command |-> Command, args |-> Args,
                   originalError |-> OriginalMessage(error)])

(* ------------------------- coverage environment ------------------------ *)

\* an environment is a function from the names of its variables to strings
EmptyEnv == [name \in {} |-> ""]

\* env[name] is truthy: the variable is set and is not the empty string
Truthy(env, name) == name \in DOMAIN env /\ env[name] # ""

shouldEnableCoverage(env) ==
  \/ Truthy(env, "NODE_V8_COVERAGE")
  \/ Truthy(env, "NYC_CONFIG")
  \/ ("COVERAGE" \in DOMAIN env /\ env["COVERAGE"] = "true")

getCoverageEnv(env) ==
  IF ~shouldEnableCoverage(env) THEN EmptyEnv
  ELSE [name \in {"NODE_V8_COVERAGE"} |->
          IF Truthy(env, "NODE_V8_COVERAGE")
          THEN env["NODE_V8_COVERAGE"] ELSE "./coverage/tmp"]

\* { ...b, ...a }: the coverage variables win
SpreadMut(a, b) ==
  [name \in DOMAIN a \cup DOMAIN b |->
     IF name \in DOMAIN a THEN a[name] ELSE b[name]]

\* { ...a, ...b }
Spread(a, b) ==
  [name \in DOMAIN a \cup DOMAIN b |->
     IF name \in DOMAIN b THEN b[name] ELSE a[name]]

\* the constructor: the config of a client built from the config argument
\* (enableCoverage "undefined" when omitted, env empty when omitted) with
\* process.env as it is then; userEnv and parentEnv keep the inputs
Construct(enableCoverage, userEnv, env) ==
  [enableCoverage |-> enableCoverage,
   userEnv |-> userEnv,
   parentEnv |-> env,
   env |-> Spread(IF enableCoverage # "false" THEN getCoverageEnv(env) ELSE EmptyEnv,
                  userEnv)]

(* --------------------------- snapshot matchers -------------------------- *)

\* a JSON value: a leaf (string, number, boolean, null), an array or an
\* object; the fields of an object are a function from its keys, which are
\* names without '.'
Leaf(v) == [t |-> "leaf", v |-> v]
Arr(items) == [t |-> "arr", items |-> items]
Obj(fields) == [t |-> "obj", fields |-> fields]

\* a path is the sequence of its names and of the dots between them
Dot == "."

\* path.split('.')[0]
FirstPart(path) ==
  LET dots == { i \in 1..Len(path) : path[i] = Dot } IN
  IF dots = {} THEN path
  ELSE SubSeq(path, 1, (CHOOSE i \in dots : \A j \in dots : i <= j) - 1)

\* p.startsWith(`${key}.`)
startsWithKeyDot(p, key) == Len(p) >= 2 /\ p[1] = key /\ p[2] = Dot

\* p.substring(n)
substring(p, n) == SubSeq(p, n + 1, Len(p))

\* the paths are kept as a set: their order and repetitions have no effect
DEFAULT_EXCLUDE_FIELDS ==
  { <<"timestamp">>, <<"requestId">>, <<"_meta", Dot, "timestamp">>,
    <<"serverInfo", Dot, "startedAt">>, <<"serverInfo", Dot, "uptime">>,
    <<"executionTime">>, <<"cacheKey">> }

\* lines 117-120
shouldExclude(excludePaths, key) ==
  \E path \in excludePaths : FirstPart(path) = <<key>> \/ path = <<key>>

RECURSIVE excludeProperties(_, _)
excludeProperties(obj, excludePaths) ==
  IF obj.t = "leaf" THEN obj
  ELSE IF obj.t = "arr"
  THEN Arr([i \in 1..Len(obj.items) |-> excludeProperties(obj.items[i], excludePaths)])
  ELSE Obj([key \in { k \in DOMAIN obj.fields : ~shouldExclude(excludePaths, k) } |->
              excludeProperties(
                obj.fields[key],
                { substring(p, 2) : p \in { q \in excludePaths : startsWithKeyDot(q, key) } })])

\* options.exclude is the set exclude, empty when omitted
normalizeMCPResponse(value, exclude) ==
  excludeProperties(value, DEFAULT_EXCLUDE_FIELDS \cup exclude)

\* no matcher has been called
NoSnapshot == [value |-> NULL, exclude |-> {}, normalized |-> NULL]

(* ------------------------------- logger -------------------------------- *)

MaxLogs == 3

\* the calls of close() on a logger
MaxCloses == 2

LogLevel == {"debug", "info", "warn", "error"}

LOG_LEVELS(level) ==
  CASE level = "debug" -> 0
    [] level = "info" -> 1
    [] level = "warn" -> 2
    [] level = "error" -> 3

\* line 145 with a strict comparison
shouldLogMut(options, level) ==
  options.enabled /\ LOG_LEVELS(level) > LOG_LEVELS(options.level)

\* options: this.options of a Logger, after the defaults of the constructor
shouldLog(options, level) ==
  IF ~options.enabled THEN FALSE
  ELSE LOG_LEVELS(level) >= LOG_LEVELS(options.level)

\* the methods of console the module replaces
Methods == {"log", "info", "warn", "error", "debug"}

\* the level the replacement of a console method logs at, lines 336-340
PatchedLevel(method) == IF method = "log" THEN "info" ELSE method

\* the stream the console of Node writes a method's output to
NativeStream(method) ==
  IF method \in {"warn", "error"} THEN "stderr" ELSE "stdout"

\* no entry in the map originalMethods
NoMethods == [m \in {} |-> ""]

\* the console before the logger module is loaded: methods[m] names the
\* function installed as console[m]; written[s] is what stream s received;
\* op is the last call made (patchConsole, unpatchConsole, an assignment, or
\* the console method called) and threw tells whether it threw
NativeConsole ==
  [methods |-> [m \in Methods |-> "native"],
   isPatched |-> FALSE,
   originalMethods |-> NoMethods,
   globalLogger |-> NULL,
   op |-> "none",
   threw |-> FALSE,
   written |-> [s \in {"stdout", "stderr", "custom"} |-> <<>>]]

\* what the streams have received in all
Written(con) ==
  Len(con.written["stdout"]) + Len(con.written["stderr"]) + Len(con.written["custom"])

\* Logger.handleLog of the global logger: lines 193-199
HandleLog(con, level) ==
  IF shouldLog(con.globalLogger, level)
  THEN [con EXCEPT !.written[con.globalLogger.stream] = Append(@, level)]
  ELSE con

\* fileHandle.write is given at most this many messages at once
BatchSize == 100

\* the first n elements of a sequence, all of it when it is shorter
Take(q, n) == SubSeq(q, 1, IF Len(q) < n THEN Len(q) ELSE n)
Drop(q, n) == SubSeq(q, (IF Len(q) < n THEN Len(q) ELSE n) + 1, Len(q))

\* no Logger has been created
NoLogger ==
  [options |-> NULL, fileHandle |-> 0, writeQueue |-> <<>>,
   isWriting |-> FALSE, isClosed |-> FALSE,
   opening |-> "none", writes |-> <<>>, closing |-> "idle", closeCalls |-> 0,
   file |-> [state |-> "none", content |-> <<>>],
   stream |-> <<>>, logged |-> 0, pendingAtClose |-> {}, streamAtClose |-> {},
   failed |-> FALSE]

\* new Logger(options), lines 111-131: messages are numbered in the order
\* they are logged; with a log file, open() has been called and is awaited
\*   opening: the open() of initFileLogging: none, pending, opened, failed
\*   writes: the batches given to fileHandle.write that have not settled
\*   closing: where close() is: idle, flush, handle, done
\*   file: the log file: its handle (none, open, closing, closed), its content
\*   stream: the messages written to options.stream
\*   pendingAtClose: the messages queued or in a write when close() was called
\*   streamAtClose: the messages written to the stream when close() was called
\*   failed: open() or a write has failed
NewLogger(options) ==
  [NoLogger EXCEPT !.options = options,
                   !.opening = IF options.logFile THEN "pending" ELSE "none"]

\* the messages of a queue
Messages(queue) == { queue[i] : i \in 1..Len(queue) }

\* the messages of a sequence of batches
RECURSIVE Flatten(_)
Flatten(batches) ==
  IF batches = <<>> THEN <<>> ELSE Head(batches) \o Flatten(Tail(batches))

\* flushFileWrites(), lines 217-225, up to its await
FlushFileWrites(lg) ==
  IF Len(lg.writeQueue) = 0 \/ lg.fileHandle = 0 \/ lg.isClosed THEN lg
  ELSE [lg EXCEPT !.isWriting = TRUE,
                  !.writes = Append(@, Take(lg.writeQueue, BatchSize)),
                  !.writeQueue = Drop(@, BatchSize)]

\* queueFileWrite with a flush started for every message
QueueFileWriteMut(lg, message) ==
  FlushFileWrites([lg EXCEPT !.writeQueue = Append(@, message)])

\* queueFileWrite(message), lines 207-215
QueueFileWrite(lg, message) ==
  LET queued == [lg EXCEPT !.writeQueue = Append(@, message)] IN
  IF ~queued.isWriting THEN FlushFileWrites(queued) ELSE queued

(* ------------------------------- state --------------------------------- *)

\* state[c]: the private `state` object of client c
\* sessions: the SDK sessions created so far, by id
\* calls[c][k]: the call in slot k of client c
\* processEnv: process.env of the test process
\* config[c]: the config of client c
\* console: the global console, the patch state of the logger module and
\*          what has been written to the standard streams
\* logger: a Logger instance with its log file
\* snapshot: a value handed to a snapshot matcher and what was snapshotted
VARIABLES state, sessions, calls, processEnv, config, console, logger, snapshot

vars == <<state, sessions, calls, processEnv, config, console, logger, snapshot>>

EmptyState ==
  [client |-> 0, transport |-> 0, initialized |-> FALSE,
   serverInfo |-> NULL, serverCapabilities |-> NULL]

Idle ==
  [pc |-> "idle", op |-> "none", sess |-> 0, name |-> "", params |-> [t |-> "undefined"],
   resp |-> NULL, out |-> NULL]

Init ==
  /\ state = [c \in Clients |-> EmptyState]
  /\ sessions = <<>>
  /\ calls = [c \in Clients |-> [k \in Callers |-> Idle]]
  /\ processEnv = EmptyEnv
  /\ config = [c \in Clients |-> Construct("undefined", EmptyEnv, processEnv)]
  /\ console = NativeConsole
  /\ logger = NoLogger
  /\ snapshot = NoSnapshot

\* the connection state of the lifecycle, read from the fields of the state
ConnState(c) ==
  IF state[c].client = 0 THEN "Disconnected"
  ELSE IF state[c].initialized THEN "Connected"
  ELSE "Connecting"

isConnected(c) == state[c].client # 0 /\ state[c].initialized
getServerInfo(c) == state[c].serverInfo
getServerCapabilities(c) == state[c].serverCapabilities


(* ------------------------------- calls --------------------------------- *)

Resolved(value) == [ok |-> TRUE, value |-> value, error |-> NULL]
Rejected(error) == [ok |-> FALSE, value |-> NULL, error |-> error]

\* a suspended call: awaiting the SDK promise of session sess
Pending(pc, op, sess, name, params, out) ==
  [pc |-> pc, op |-> op, sess |-> sess, name |-> name, params |-> params,
   resp |-> NULL, out |-> out]

\* a settled call the caller has not taken yet; sess is the session whose
\* promise it awaited, 0 when it awaited none
Done(op, sess, name, params, resp, out) ==
  [pc |-> "done", op |-> op, sess |-> sess, name |-> name, params |-> params,
   resp |-> resp, out |-> out]

SetCall(c, k, v) == calls' = [calls EXCEPT ![c][k] = v]

(* ------------------------------ SDK session ---------------------------- *)

\* new Client(...) + new StdioClientTransport(...); connect() starts the process
NewSession(c) ==
  [owner |-> c, closed |-> FALSE, proc |-> "running", env |-> config[c].env,
   version |-> Undefined, caps |-> Undefined]

\* getServerVersion() of a session whose handshake completed: undefined,
\* or an Implementation whose name may be empty
NamedVersion == [name |-> "srv", version |-> "1.0"]
UnnamedVersion == [name |-> "", version |-> "1.0"]

\* getServerCapabilities() of a session whose handshake completed, if defined
ToolsCapability == [tools |-> TRUE]

\* client.close(): the transport is closed and the subprocess terminated
Closed(s) ==
  [s EXCEPT !.closed = TRUE,
            !.proc = IF @ = "running" THEN "exited" ELSE @]

TypeErrorNull ==
  [inst |-> TRUE, name |-> "TypeError", message |-> <<"null-client">>]

CtorError(step) ==
  [inst |-> TRUE, name |-> "Error", message |-> <<step>>]

(* ----------------------------- connect --------------------------------- *)

\* x || 'unknown'
OrUnknown(x) == IF x = "" THEN "unknown" ELSE x

\* lines 108-114 with the server info left null when the server names none
NegotiatedMut(st, session) ==
  [st EXCEPT
     !.serverCapabilities =
        IF session.caps = Undefined THEN NULL ELSE session.caps,
     !.serverInfo =
        IF session.version = Undefined THEN NULL
        ELSE [name |-> OrUnknown(session.version.name),
              version |-> OrUnknown(session.version.version)],
     !.initialized = TRUE]

\* lines 108-114: record what the connected client negotiated
Negotiated(st, session) ==
  [st EXCEPT
     !.serverCapabilities =
        IF session.caps = Undefined THEN NULL ELSE session.caps,
     !.serverInfo =
        IF session.version = Undefined
        THEN [name |-> "unknown", version |-> "unknown"]
        ELSE [name |-> OrUnknown(session.version.name),
              version |-> OrUnknown(session.version.version)],
     !.initialized = TRUE]

\* lines 119-127: the error connect() rejects with
ConnectFailure(error) ==
  IF "code" \in DOMAIN error
     /\ error.name \in {"ConnectionError", "InitializationError"}
  THEN error
  ELSE FailedToConnectError(error)

\* catch block of connect(), and disconnect(): cleanup() up to its first
\* await.  With a session held, close() is called on it and the call
\* suspends; without one the finally block runs at once.
StartCleanup(c, k, op, sess, out) ==
  IF state[c].client # 0
  THEN /\ SetCall(c, k, Pending("closing", op, state[c].client, "", Undefined, out))
       /\ UNCHANGED state
  ELSE /\ SetCall(c, k, Done(op, sess, "", Undefined, NULL, out))
       /\ state' = [state EXCEPT ![c] = EmptyState]

\* line 86 with the check made on isConnected() instead of the session
hasSessionMut(c) == state[c].client # 0 /\ state[c].initialized

\* line 86: if (this.state.client)
hasSession(c) == state[c].client # 0

\* connect() marking the instance initialized before the handshake
ConnectCallMut(c, k, fail) ==
  /\ calls[c][k].pc = "idle"
  /\ UNCHANGED <<processEnv, config, console, logger, snapshot>>
  /\ IF hasSession(c)
     THEN /\ SetCall(c, k, Done("connect", 0, "", Undefined, NULL,
                                Rejected(AlreadyConnectedError)))
          /\ UNCHANGED <<state, sessions>>
     ELSE IF fail # "none"
     THEN /\ SetCall(c, k, Done("connect", 0, "", Undefined, NULL,
                                Rejected(ConnectFailure(CtorError(fail)))))
          /\ state' = [state EXCEPT ![c] = EmptyState]
          /\ UNCHANGED sessions
     ELSE /\ Len(sessions) < MaxSessions
          /\ LET s == Len(sessions) + 1 IN
             /\ sessions' = Append(sessions, NewSession(c))
             /\ state' = [state EXCEPT ![c].transport = s, ![c].client = s,
                                       ![c].initialized = TRUE]
             /\ SetCall(c, k, Pending("connecting", "connect", s, "", Undefined, NULL))

\* connect(), lines 85-105: up to the await of the handshake
ConnectCall(c, k, fail) ==
  /\ calls[c][k].pc = "idle"
  /\ UNCHANGED <<processEnv, config, console, logger, snapshot>>
  /\ IF hasSession(c)
     THEN /\ SetCall(c, k, Done("connect", 0, "", Undefined, NULL,
                                Rejected(AlreadyConnectedError)))
          /\ UNCHANGED <<state, sessions>>
     ELSE IF fail # "none"
     THEN \* a constructor threw: catch, cleanup() without a session
          /\ SetCall(c, k, Done("connect", 0, "", Undefined, NULL,
                                Rejected(ConnectFailure(CtorError(fail)))))
          /\ state' = [state EXCEPT ![c] = EmptyState]
          /\ UNCHANGED sessions
     ELSE /\ Len(sessions) < MaxSessions
          /\ LET s == Len(sessions) + 1 IN
             /\ sessions' = Append(sessions, NewSession(c))
             /\ state' = [state EXCEPT ![c].transport = s, ![c].client = s]
             /\ SetCall(c, k, Pending("connecting", "connect", s, "", Undefined, NULL))

\* lines 108-114 reading the session of the instance's first connect()
ConnectResumeMut(c, k, outcome, version, caps, error) ==
  /\ calls[c][k].pc = "connecting"
  /\ UNCHANGED <<processEnv, config, console, logger, snapshot>>
  /\ LET s == calls[c][k].sess IN
     IF outcome = "ok"
     THEN /\ ~sessions[s].closed
          /\ sessions[s].proc = "running"
          /\ sessions' = [sessions EXCEPT ![s].version = version, ![s].caps = caps]
          /\ IF state[c].client = 0
             THEN StartCleanup(c, k, "connect", s,
                               Rejected(ConnectFailure(TypeErrorNull)))
             ELSE /\ state' = [state EXCEPT ![c] = Negotiated(@, sessions'[1])]
                  /\ SetCall(c, k, Done("connect", s, "", Undefined, NULL,
                                     Resolved(Undefined)))
     ELSE /\ sessions' = [sessions EXCEPT
                            ![s].proc = IF outcome = "spawn" /\ ~sessions[s].closed
                                        THEN "exited" ELSE @]
          /\ StartCleanup(c, k, "connect", s, Rejected(ConnectFailure(error)))

\* connect(), lines 105-128: the handshake promise of the awaited session
\* settles and the continuation runs up to its next await
ConnectResume(c, k, outcome, version, caps, error) ==
  /\ calls[c][k].pc = "connecting"
  /\ UNCHANGED <<processEnv, config, console, logger, snapshot>>
  /\ LET s == calls[c][k].sess IN
     IF outcome = "ok"
     THEN /\ ~sessions[s].closed
          /\ sessions[s].proc = "running"
          /\ sessions' = [sessions EXCEPT ![s].version = version, ![s].caps = caps]
          /\ IF state[c].client = 0
             THEN \* this.state.client is null: TypeError, caught at line 115
                  StartCleanup(c, k, "connect", s,
                               Rejected(ConnectFailure(TypeErrorNull)))
             ELSE /\ state' = [state EXCEPT
                                 ![c] = Negotiated(@, sessions'[state[c].client])]
                  /\ SetCall(c, k, Done("connect", s, "", Undefined, NULL,
                                     Resolved(Undefined)))
     ELSE /\ sessions' = [sessions EXCEPT
                            ![s].proc = IF outcome = "spawn" /\ ~sessions[s].closed
                                        THEN "exited" ELSE @]
          /\ StartCleanup(c, k, "connect", s, Rejected(ConnectFailure(error)))

(* ---------------------------- disconnect ------------------------------- *)

\* disconnect() guarded by ensureConnected() like the facade methods
DisconnectCallMut(c, k) ==
  /\ calls[c][k].pc = "idle"
  /\ UNCHANGED <<processEnv, config, console, logger, snapshot>>
  /\ IF state[c].client = 0
     THEN /\ SetCall(c, k, Done("disconnect", 0, "", Undefined, NULL,
                                Rejected(NotConnectedError)))
          /\ UNCHANGED state
     ELSE StartCleanup(c, k, "disconnect", 0, Resolved(Undefined))
  /\ UNCHANGED sessions

\* disconnect(), lines 346-348, and cleanup() up to its await
DisconnectCall(c, k) ==
  /\ calls[c][k].pc = "idle"
  /\ UNCHANGED <<processEnv, config, console, logger, snapshot>>
  /\ StartCleanup(c, k, "disconnect", 0, Resolved(Undefined))
  /\ UNCHANGED sessions

\* cleanup() clearing a state shared by every instance
CleanupResumeMut(c, k, closeOutcome) ==
  /\ calls[c][k].pc = "closing"
  /\ UNCHANGED <<processEnv, config, console, logger, snapshot>>
  /\ LET s == calls[c][k].sess IN
     sessions' = IF closeOutcome = "ok"
                 THEN [sessions EXCEPT ![s] = Closed(@)]
                 ELSE sessions
  /\ state' = [x \in Clients |-> EmptyState]
  /\ SetCall(c, k, Done(calls[c][k].op, calls[c][k].sess, "", Undefined, NULL,
                        calls[c][k].out))

\* cleanup(), lines 365-375: close() settles; its error is ignored and the
\* finally block clears the state
CleanupResume(c, k, closeOutcome) ==
  /\ calls[c][k].pc = "closing"
  /\ UNCHANGED <<processEnv, config, console, logger, snapshot>>
  /\ LET s == calls[c][k].sess IN
     sessions' = IF closeOutcome = "ok"
                 THEN [sessions EXCEPT ![s] = Closed(@)]
                 ELSE sessions
  /\ state' = [state EXCEPT ![c] = EmptyState]
  /\ SetCall(c, k, Done(calls[c][k].op, calls[c][k].sess, "", Undefined, NULL,
                        calls[c][k].out))

\* the caller takes the settled promise
Return(c, k) ==
  /\ calls[c][k].pc = "done"
  /\ UNCHANGED <<processEnv, config, console, logger, snapshot>>
  /\ SetCall(c, k, Idle)
  /\ UNCHANGED <<state, sessions>>


(* --------------------------- server answers ---------------------------- *)

\* all sequences over S of length at most n
SeqsUpTo(S, n) == UNION { [1..m -> S] : m \in 0..n }

ToolNames == {"echo", "add"}
Tools == [name : ToolNames, description : {"d1", "d2"}]
ToolLists == SeqsUpTo(Tools, MaxTools)

\* the characters a text is made of
Alphabet == {"[", "]", "{", "}", "1", ","}
Texts == SeqsUpTo(Alphabet, MaxTextLen)

TextItem(text) == [type |-> "text", text |-> text]
ImageItem == [type |-> "image", data |-> "AAAA"]

Contents(texts) ==
  {<<>>, <<ImageItem>>, <<TextItem(<<"[", "]">>), TextItem(<<"[", "]">>)>>}
    \cup { <<TextItem(t)>> : t \in texts }

\* CallToolResult: isError is optional; the flag is combined with two contents
Results(texts) ==
  [content : Contents(texts)]
    \cup [content : {<<>>, <<TextItem(<<"[", "]">>)>>}, isError : BOOLEAN]

Answer(kind, value) == [ok |-> TRUE, kind |-> kind, value |-> value, error |-> NULL]
Failure(error) == [ok |-> FALSE, kind |-> "error", value |-> NULL, error |-> error]

AnswerKind(op) ==
  CASE op \in {"listTools", "expectToolExists"} -> "tools"
    [] op \in {"callTool", "expectToolCallSuccess", "expectToolCallError"} -> "result"
    [] op = "listResources" -> "resources"
    [] op = "readResource" -> "contents"
    [] op = "listPrompts" -> "prompts"
    [] op = "getPrompt" -> "prompt"

\* what a session can settle a request with
Responses(toolLists, texts) ==
  { Failure(e) : e \in SdkErrors }
    \cup { Answer("tools", [tools |-> l]) : l \in toolLists }
    \cup { Answer("result", r) : r \in Results(texts) }
    \cup { Answer("resources", [resources |-> <<[uri |-> "file:///a", name |-> "a"]>>]),
           Answer("contents", [contents |-> <<[uri |-> "file:///a", text |-> "x"]>>]),
           Answer("prompts", [prompts |-> <<[name |-> "p"]>>]),
           Answer("prompt", [messages |-> <<>>]) }

(* ------------------------------ JSON.parse ----------------------------- *)

\* JSON.parse on texts over Alphabet: numbers (runs of the digit), arrays and
\* the empty object; result [ok, val, next], next the index after the value
RECURSIVE ParseValue(_, _)
RECURSIVE ParseElements(_, _, _)
RECURSIVE ParseDigits(_, _, _)

ParseFail == [ok |-> FALSE, val |-> NULL, next |-> 0]

ParseDigits(s, i, n) ==
  IF i <= Len(s) /\ s[i] = "1"
  THEN ParseDigits(s, i + 1, 10 * n + 1)
  ELSE [ok |-> TRUE, val |-> [t |-> "number", n |-> n], next |-> i]

\* after an element of an array: "]" ends it, "," asks for another element
ParseElements(s, i, items) ==
  IF i > Len(s) THEN ParseFail
  ELSE IF s[i] = "]"
    THEN [ok |-> TRUE, val |-> [t |-> "array", items |-> items], next |-> i + 1]
  ELSE IF s[i] = ","
    THEN LET e == ParseValue(s, i + 1) IN
         IF e.ok THEN ParseElements(s, e.next, Append(items, e.val)) ELSE ParseFail
  ELSE ParseFail

ParseValue(s, i) ==
  IF i > Len(s) THEN ParseFail
  ELSE IF s[i] = "1" THEN ParseDigits(s, i, 0)
  ELSE IF s[i] = "{"
    THEN IF i + 1 <= Len(s) /\ s[i + 1] = "}"
         THEN [ok |-> TRUE, val |-> [t |-> "object"], next |-> i + 2]
         ELSE ParseFail
  ELSE IF s[i] = "["
    THEN IF i + 1 <= Len(s) /\ s[i + 1] = "]"
         THEN [ok |-> TRUE, val |-> [t |-> "array", items |-> <<>>], next |-> i + 2]
         ELSE LET e == ParseValue(s, i + 1) IN
              IF e.ok THEN ParseElements(s, e.next, <<e.val>>) ELSE ParseFail
  ELSE ParseFail

\* JSON.parse(text): a value, or a SyntaxError
JSONparse(text) ==
  LET r == ParseValue(text, 1) IN
  IF r.ok /\ r.next = Len(text) + 1 THEN r ELSE ParseFail

\* text.startsWith(ch)
startsWith(text, ch) == Len(text) > 0 /\ text[1] = ch


(* ------------------------------ facade --------------------------------- *)

FacadeOps ==
  {"listTools", "callTool", "listResources", "readResource", "listPrompts", "getPrompt"}

\* the message toMCPTestError falls back to
DefaultMessage(op, name) ==
  CASE op = "listTools" -> <<"Failed to list tools">>
    [] op = "listResources" -> <<"Failed to list resources">>
    [] op = "readResource" -> <<"Failed to read resource: ", name>>
    [] op = "listPrompts" -> <<"Failed to list prompts">>
    [] op = "getPrompt" -> <<"Failed to get prompt: ", name>>

\* listTools, listResources, readResource, listPrompts, getPrompt after the await
ListOutcome(op, name, resp) ==
  IF resp.ok
  THEN Resolved(CASE op = "listTools" -> resp.value.tools
                  [] op = "listResources" -> resp.value.resources
                  [] op = "listPrompts" -> resp.value.prompts
                  [] OTHER -> resp.value)
  ELSE Rejected(toMCPTestError(resp.error, DefaultMessage(op, name)))

\* line 162 with the flag never seen
IsErrorMut(result) == FALSE

\* result.isError is truthy
IsError(result) == "isError" \in DOMAIN result /\ result.isError

\* callTool, lines 155-178, after the await
CallToolOutcome(name, params, resp) ==
  IF resp.ok
  THEN IF IsError(resp.value)
       THEN \* thrown at line 163, rethrown at line 171
            Rejected(ToolCallError(name, <<"Tool returned an error">>,
                                   [result |-> resp.value]))
       ELSE Resolved(resp.value)
  ELSE Rejected(ToolCallError(name, <<"Tool call failed">>,
                              [params |-> params,
                               originalError |-> OriginalMessage(resp.error)]))

\* tools.find((t) => t.name === name): index of the first match, 0 if none
FindTool(tools, name) ==
  LET hits == { i \in 1..Len(tools) : tools[i].name = name } IN
  IF hits = {} THEN 0 ELSE CHOOSE i \in hits : \A j \in hits : i <= j

\* expectToolExists, lines 244-256, applied to what listTools settled with
ExpectToolExists(name, listed) ==
  IF ~listed.ok THEN listed
  ELSE LET tools == listed.value
           i == FindTool(tools, name) IN
       IF i = 0
       THEN Rejected(ToolNotFoundError(name, [j \in 1..Len(tools) |-> tools[j].name]))
       ELSE Resolved(tools[i])

\* result.content[0]?.text ?? ''
TextOf(item) == IF "text" \in DOMAIN item THEN item.text ELSE <<>>

\* the three kinds of value expectToolCallSuccess returns
Parsed(val) == [kind |-> "parsed", v |-> val]
RawText(text) == [kind |-> "text", v |-> text]
Whole(result) == [kind |-> "result", v |-> result]

\* lines 278-288 with JSON.parse tried on every text
ExpectToolCallSuccessMut(name, params, called) ==
  IF ~called.ok THEN called
  ELSE LET result == called.value IN
       IF Len(result.content) = 1 /\ result.content[1].type = "text"
       THEN LET text == TextOf(result.content[1]) IN
            IF JSONparse(text).ok
            THEN Resolved(Parsed(JSONparse(text).val))
            ELSE Resolved(RawText(text))
       ELSE Resolved(Whole(result))

\* expectToolCallSuccess, lines 262-292, applied to what callTool settled with
ExpectToolCallSuccess(name, params, called) ==
  IF ~called.ok THEN called
  ELSE LET result == called.value IN
       IF IsError(result)
       THEN Rejected(AssertionError(
              <<"Expected tool '", name, "' to succeed, but it returned an error">>,
              [toolName |-> name, params |-> params, result |-> result]))
       ELSE IF Len(result.content) = 1 /\ result.content[1].type = "text"
       THEN LET text == TextOf(result.content[1]) IN
            IF (startsWith(text, "{") \/ startsWith(text, "[")) /\ JSONparse(text).ok
            THEN Resolved(Parsed(JSONparse(text).val))
            ELSE Resolved(RawText(text))
       ELSE Resolved(Whole(result))

\* lines 312-319 without the re-throw of the AssertionError
ExpectToolCallErrorMut(name, params, called) ==
  IF called.ok
  THEN Resolved(AssertionError(
         <<"Expected tool '", name, "' to fail, but it succeeded">>,
         [toolName |-> name, params |-> params, result |-> called.value]))
  ELSE Resolved(called.error)

\* expectToolCallError, lines 298-320, applied to what callTool settled with
ExpectToolCallError(name, params, called) ==
  IF called.ok
  THEN IF IsError(called.value)
       THEN Resolved([name |-> "Error", message |-> <<"Tool returned error as expected">>])
       ELSE \* thrown at line 307, rethrown at line 315
            Rejected(AssertionError(
              <<"Expected tool '", name, "' to fail, but it succeeded">>,
              [toolName |-> name, params |-> params, result |-> called.value]))
  ELSE IF called.error.name = "AssertionError"
       THEN called
       ELSE Resolved(called.error)

\* what a call of op settles with, given what the facade method under it did
Outcome(op, name, params, resp) ==
  CASE op = "callTool" -> CallToolOutcome(name, params, resp)
    [] op = "expectToolCallSuccess" ->
         ExpectToolCallSuccess(name, params, CallToolOutcome(name, params, resp))
    [] op = "expectToolCallError" ->
         ExpectToolCallError(name, params, CallToolOutcome(name, params, resp))
    [] op = "expectToolExists" ->
         ExpectToolExists(name, ListOutcome("listTools", name, resp))
    [] OTHER -> ListOutcome(op, name, resp)

\* the same when ensureConnected() threw (lines 353-357)
OutcomeNotConnected(op, name, params) ==
  CASE op = "expectToolCallSuccess" ->
         ExpectToolCallSuccess(name, params, Rejected(NotConnectedError))
    [] op = "expectToolCallError" ->
         ExpectToolCallError(name, params, Rejected(NotConnectedError))
    [] op = "expectToolExists" ->
         ExpectToolExists(name, Rejected(NotConnectedError))
    [] OTHER -> Rejected(NotConnectedError)

\* ensureConnected() that never throws
ensureConnectedMut(c) == TRUE

\* ensureConnected(), lines 353-357: TRUE when it does not throw
ensureConnected(c) == ~(state[c].client = 0 \/ ~state[c].initialized)

\* a facade method or helper, up to the await of the request
FacadeCall(c, k, op, name, params) ==
  /\ calls[c][k].pc = "idle"
  /\ UNCHANGED <<processEnv, config, console, logger, snapshot>>
  /\ IF ensureConnected(c)
     THEN SetCall(c, k, Pending("requesting", op, state[c].client, name, params, NULL))
     ELSE SetCall(c, k, Done(op, 0, name, params, NULL,
                             OutcomeNotConnected(op, name, params)))
  /\ UNCHANGED <<state, sessions>>

\* the request settles and the method runs to its end
FacadeResume(c, k, resp) ==
  /\ calls[c][k].pc = "requesting"
  /\ UNCHANGED <<processEnv, config, console, logger, snapshot>>
  /\ LET call == calls[c][k] IN
     /\ resp.kind \in {"error", AnswerKind(call.op)}
     /\ resp.ok => (~sessions[call.sess].closed /\ sessions[call.sess].proc = "running")
     /\ SetCall(c, k, Done(call.op, call.sess, call.name, call.params, resp,
                           Outcome(call.op, call.name, call.params, resp)))
  /\ UNCHANGED <<state, sessions>>

(* ------------------------- console and logger -------------------------- *)

\* patchConsole(options) with the flag isPatched never tested
PatchConsoleMut(options) ==
  /\ console' = [console EXCEPT
                   !.originalMethods = console.methods,
                   !.globalLogger = options,
                   !.methods = [m \in Methods |-> "patched"],
                   !.isPatched = TRUE,
                   !.op = "patchConsole",
                   !.threw = FALSE]
  /\ UNCHANGED <<state, sessions, calls, processEnv, config, logger, snapshot>>

\* patchConsole(options), lines 320-346
PatchConsole(options) ==
  /\ IF console.isPatched
     THEN console' = [console EXCEPT !.op = "patchConsole", !.threw = TRUE]
     ELSE console' = [console EXCEPT
                        !.originalMethods = console.methods,
                        !.globalLogger = options,
                        !.methods = [m \in Methods |-> "patched"],
                        !.isPatched = TRUE,
                        !.op = "patchConsole",
                        !.threw = FALSE]
  /\ UNCHANGED <<state, sessions, calls, processEnv, config, logger, snapshot>>

\* unpatchConsole(), lines 359-380; the global logger has no log file, so
\* its close() has nothing to release
UnpatchConsole ==
  /\ IF ~console.isPatched
     THEN console' = [console EXCEPT !.op = "unpatchConsole", !.threw = FALSE]
     ELSE console' = [console EXCEPT
                        !.op = "unpatchConsole",
                        !.methods = [m \in Methods |->
                                       IF m \in DOMAIN console.originalMethods
                                       THEN console.originalMethods[m]
                                       ELSE @[m]],
                        !.originalMethods = NoMethods,
                        !.isPatched = FALSE,
                        !.globalLogger = NULL,
                        !.threw = FALSE]
  /\ UNCHANGED <<state, sessions, calls, processEnv, config, logger, snapshot>>

\* the program installs a function of its own as console[method]
AssignConsole(method, fn) ==
  /\ console.methods[method] # fn
  /\ console' = [console EXCEPT !.methods[method] = fn, !.op = "assign",
                                !.threw = FALSE]
  /\ UNCHANGED <<state, sessions, calls, processEnv, config, logger, snapshot>>

\* console[method](...): the native function writes to its stream, the
\* replacement calls the global logger, a function of the program writes
\* nothing
ConsoleCall(method) ==
  /\ Written(console) < MaxLogs
  /\ console' =
       CASE console.methods[method] = "native" ->
              [console EXCEPT !.written[NativeStream(method)] = Append(@, method),
                              !.op = method, !.threw = FALSE]
         [] console.methods[method] = "patched" ->
              IF console.globalLogger = NULL
              THEN [console EXCEPT !.op = method, !.threw = FALSE]
              ELSE [HandleLog(console, PatchedLevel(method)) EXCEPT
                      !.op = method, !.threw = FALSE]
         [] OTHER -> [console EXCEPT !.op = method, !.threw = FALSE]
  /\ UNCHANGED <<state, sessions, calls, processEnv, config, logger, snapshot>>

\* logger.debug / info / warn / error, through handleLog, lines 193-205
Log(level) ==
  /\ logger.options # NULL
  /\ logger.logged < MaxLogs
  /\ LET message == logger.logged + 1
         counted == [logger EXCEPT !.logged = message] IN
     logger' =
       IF ~shouldLog(logger.options, level) THEN counted
       ELSE LET streamed == [counted EXCEPT !.stream = Append(@, message)] IN
            IF streamed.fileHandle # 0 /\ ~streamed.isClosed
            THEN QueueFileWrite(streamed, message)
            ELSE streamed
  /\ UNCHANGED <<state, sessions, calls, processEnv, config, console, snapshot>>

\* initFileLogging(), lines 136-140: open() settles
OpenResume(opened) ==
  /\ logger.opening = "pending"
  /\ logger' = IF opened
               THEN [logger EXCEPT !.opening = "opened", !.fileHandle = 1,
                                   !.file.state = "open"]
               ELSE [logger EXCEPT !.opening = "failed", !.failed = TRUE]
  /\ UNCHANGED <<state, sessions, calls, processEnv, config, console, snapshot>>

\* flushFileWrites(), lines 225-235: a write settles; the batch is in the
\* file if it succeeded; then the finally block runs
WriteResume(written) ==
  /\ logger.writes # <<>>
  /\ written => logger.file.state \in {"open", "closing"}
  /\ LET batch == Head(logger.writes)
         settled == [logger EXCEPT
                       !.writes = Tail(@),
                       !.file.content = IF written THEN @ \o batch ELSE @,
                       !.failed = @ \/ ~written,
                       !.isWriting = FALSE] IN
     logger' = IF Len(settled.writeQueue) > 0 THEN FlushFileWrites(settled) ELSE settled
  /\ UNCHANGED <<state, sessions, calls, processEnv, config, console, snapshot>>

\* close(), lines 263-270: up to the await of flushFileWrites(); a call on a
\* closed logger returns at once
CloseCall ==
  /\ logger.options # NULL
  /\ logger.closeCalls < MaxCloses
  /\ logger' =
       IF logger.isClosed THEN [logger EXCEPT !.closeCalls = @ + 1]
       ELSE LET closed == [logger EXCEPT
                             !.closeCalls = @ + 1,
                             !.isClosed = TRUE,
                             !.pendingAtClose =
                                Messages(logger.writeQueue \o Flatten(logger.writes)),
                             !.streamAtClose = Messages(logger.stream)]
            IN
            IF closed.fileHandle # 0
            THEN [FlushFileWrites(closed) EXCEPT !.closing = "flush"]
            ELSE [closed EXCEPT !.closing = "done"]
  /\ UNCHANGED <<state, sessions, calls, processEnv, config, console, snapshot>>

\* close(), line 271: flushFileWrites() has returned; fileHandle.close() is called
CloseFlushed ==
  /\ logger.closing = "flush"
  /\ logger' = [logger EXCEPT !.closing = "handle", !.file.state = "closing"]
  /\ UNCHANGED <<state, sessions, calls, processEnv, config, console, snapshot>>

\* close(), lines 271-273: fileHandle.close() settles, once the operations
\* pending on the handle have completed
CloseResume ==
  /\ logger.closing = "handle"
  /\ logger.writes = <<>>
  /\ logger' = [logger EXCEPT !.closing = "done", !.file.state = "closed",
                              !.fileHandle = 0]
  /\ UNCHANGED <<state, sessions, calls, processEnv, config, console, snapshot>>

\* a snapshot matcher: the normalized value is handed to toMatchSnapshot()
ToMatchMCPSnapshot ==
  /\ snapshot.value # NULL
  /\ snapshot.normalized = NULL
  /\ snapshot' = [snapshot EXCEPT
                    !.normalized = normalizeMCPResponse(snapshot.value, snapshot.exclude)]
  /\ UNCHANGED <<state, sessions, calls, processEnv, config, console, logger>>

(* --------------------------- specifications ---------------------------- *)

ParamValues == {Undefined, [message |-> "hi"]}
ConnectFaults == {"none", "transport", "session"}
HandshakeOutcomes == {"ok", "spawn", "init"}
CloseOutcomes == {"ok", "throw"}

McpError == [inst |-> TRUE, name |-> "McpError", message |-> <<"boom">>]
\* the answers used where calls overlap
FewResponses ==
  { Failure(McpError),
    Answer("tools", [tools |-> <<[name |-> "echo", description |-> "d1"]>>]),
    Answer("result", [content |-> <<TextItem(<<"[", "]">>)>>]),
    Answer("result", [content |-> <<TextItem(<<"[", "]">>)>>, isError |-> TRUE]) }

\* one client instance whose calls may overlap
Next ==
  \E k \in Callers :
    \/ \E fail \in ConnectFaults : ConnectCall("A", k, fail)
    \/ \E outcome \in HandshakeOutcomes, version \in {Undefined, NamedVersion} :
         ConnectResume("A", k, outcome, version, ToolsCapability, McpError)
    \/ DisconnectCall("A", k)
    \/ \E closeOutcome \in CloseOutcomes : CleanupResume("A", k, closeOutcome)
    \/ \E op \in {"listTools", "callTool"} : FacadeCall("A", k, op, "echo", Undefined)
    \/ \E resp \in FewResponses : FacadeResume("A", k, resp)
    \/ Return("A", k)

Spec == Init /\ [][Next]_vars

\* one client instance used by one caller: a call starts when none is pending
NoCall(c) == \A k \in Callers : calls[c][k].pc = "idle"

\* the calls of the sequential caller
SeqInputs ==
  { <<op, "echo", Undefined>> : op \in FacadeOps \cup {"expectToolCallSuccess"} }
    \cup { <<"expectToolExists", name, Undefined>> : name \in ToolNames \cup {"missing"} }
    \cup { <<op, "add", params>> :
             op \in {"callTool", "expectToolCallError"}, params \in ParamValues }

AllResponses == Responses(ToolLists, Texts)
PlainResponses == Responses(ToolLists, {<<"[", "]">>})

\* texts matter to expectToolCallSuccess alone
SeqResponses(op) ==
  IF op = "expectToolCallSuccess" THEN AllResponses ELSE PlainResponses

SeqNext ==
  \/ \E fail \in ConnectFaults : NoCall("A") /\ ConnectCall("A", "p", fail)
  \/ \E outcome \in HandshakeOutcomes, error \in SdkErrors,
        version \in {UnnamedVersion, NamedVersion} :
       ConnectResume("A", "p", outcome, version, Undefined, error)
  \/ NoCall("A") /\ DisconnectCall("A", "p")
  \/ \E closeOutcome \in CloseOutcomes : CleanupResume("A", "p", closeOutcome)
  \/ \E in \in SeqInputs : NoCall("A") /\ FacadeCall("A", "p", in[1], in[2], in[3])
  \/ \E resp \in SeqResponses(calls["A"]["p"].op) : FacadeResume("A", "p", resp)
  \/ Return("A", "p")

SeqSpec == Init /\ [][SeqNext]_vars

\* two client instances, each used by one caller; their calls interleave
TwoNext ==
  \E c \in Clients :
    \/ NoCall(c) /\ ConnectCall(c, "p", "none")
    \/ \E outcome \in HandshakeOutcomes, version \in {NamedVersion, UnnamedVersion} :
         ConnectResume(c, "p", outcome, version, ToolsCapability, McpError)
    \/ NoCall(c) /\ DisconnectCall(c, "p")
    \/ \E closeOutcome \in CloseOutcomes : CleanupResume(c, "p", closeOutcome)
    \/ NoCall(c) /\ FacadeCall(c, "p", "callTool", "echo", Undefined)
    \/ \E resp \in FewResponses : FacadeResume(c, "p", resp)
    \/ Return(c, "p")

TwoSpec == Init /\ [][TwoNext]_vars

\* the values a variable of an environment is given; Unset: it is not there
Unset == "(unset)"
EnvOf(f) == [name \in { n \in DOMAIN f : f[n] # Unset } |-> f[name]]

\* the values the test process gives a variable of process.env
ParentValues(name) ==
  CASE name = "NODE_V8_COVERAGE" -> {Unset, "", "/parent"}
    [] name = "NYC_CONFIG" -> {Unset, "{}"}
    [] name = "COVERAGE" -> {Unset, "true", "1"}

ParentEnvs ==
  { EnvOf(f) : f \in [NODE_V8_COVERAGE : ParentValues("NODE_V8_COVERAGE"),
                      NYC_CONFIG : ParentValues("NYC_CONFIG"),
                      COVERAGE : ParentValues("COVERAGE")] }

\* config.env of the caller
UserEnvs ==
  { EnvOf(f) : f \in [NODE_V8_COVERAGE : {Unset, "", "/user"}, DEBUG : {Unset, "1"}] }

\* client A constructed with any config in any process environment
CovInit ==
  /\ state = [c \in Clients |-> EmptyState]
  /\ sessions = <<>>
  /\ calls = [c \in Clients |-> [k \in Callers |-> Idle]]
  /\ processEnv \in ParentEnvs
  /\ \E enableCoverage \in {"undefined", "true", "false"}, userEnv \in UserEnvs :
       config = [c \in Clients |-> Construct(enableCoverage, userEnv, processEnv)]
  /\ console = NativeConsole
  /\ logger = NoLogger
  /\ snapshot = NoSnapshot

\* the test process sets or deletes a variable of process.env
SetProcessEnv(name, value) ==
  /\ processEnv' = IF value = Unset
                   THEN [n \in DOMAIN processEnv \ {name} |-> processEnv[n]]
                   ELSE [n \in DOMAIN processEnv \cup {name} |->
                           IF n = name THEN value ELSE processEnv[n]]
  /\ UNCHANGED <<state, sessions, calls, config, console, logger, snapshot>>

\* a constructed client connects while the process environment changes
CovNext ==
  \/ \E name \in {"NODE_V8_COVERAGE", "NYC_CONFIG", "COVERAGE"} :
       \E value \in ParentValues(name) : SetProcessEnv(name, value)
  \/ NoCall("A") /\ ConnectCall("A", "p", "none")
  \/ ConnectResume("A", "p", "ok", NamedVersion, ToolsCapability, McpError)
  \/ Return("A", "p")

CovSpec == CovInit /\ [][CovNext]_vars

(* the snapshot matchers on values with nested objects and arrays *)

\* the longest array among the values
MaxItems == 2

\* a field that a value does not have
Absent == [t |-> "absent"]

\* the object with the fields of f that are present
ObjOf(f) == Obj([k \in { n \in DOMAIN f : f[n] # Absent } |-> f[k]])

\* objects of leaves, with or without a field named as a default exclusion
InnerValues ==
  { ObjOf(f) : f \in [{"timestamp", "field", "b"} -> {Absent, Leaf("v")}] }

\* arrays of one to MaxItems such objects
InnerArrays ==
  UNION { { Arr(items) : items \in [1..n -> InnerValues] } : n \in 1..MaxItems }

\* the values given to a matcher, after the style of tests/snapshot.test.ts
SnapValues ==
  { ObjOf(f) : f \in
      [timestamp : {Absent, Leaf("v")},
       nested : {Absent} \cup InnerValues,
       a : {Absent} \cup InnerArrays \cup { Obj([x \in {"x"} |-> e]) : e \in InnerValues },
       serverInfo : {Absent, Obj([k \in {"name", "startedAt"} |-> Leaf("v")])}] }
  \cup InnerArrays

\* options.exclude of the caller
SnapExcludes ==
  { {}, {<<"nested", Dot, "field">>}, {<<"a", Dot, "*", Dot, "b">>} }

SnapInit ==
  /\ state = [c \in Clients |-> [client |-> 0, transport |-> 0, serverInfo |-> NULL]]
  /\ sessions = <<>>
  /\ calls = [c \in Clients |-> [k \in Callers |-> Idle]]
  /\ processEnv = EmptyEnv
  /\ config = [c \in Clients |-> Construct("undefined", EmptyEnv, processEnv)]
  /\ console = NativeConsole
  /\ logger = NoLogger
  /\ \E value \in SnapValues, exclude \in SnapExcludes :
       snapshot = [value |-> value, exclude |-> exclude, normalized |-> NULL]

SnapNext == ToMatchMCPSnapshot

SnapSpec == SnapInit /\ [][SnapNext]_vars

(* patchConsole and unpatchConsole, with a program that installs console
   functions of its own *)

\* the options of the global logger, after the defaults of lines 112-123
DefaultOptions == [enabled |-> TRUE, level |-> "debug", stream |-> "stderr"]

\* the functions a console method can be: the one of Node or one of the program
ProgramFunctions == {"native", "spy"}

ConsoleInit ==
  /\ state = [c \in Clients |-> [client |-> 0, transport |-> 0, serverInfo |-> NULL]]
  /\ sessions = <<>>
  /\ calls = [c \in Clients |-> [k \in Callers |-> Idle]]
  /\ processEnv = EmptyEnv
  /\ config = [c \in Clients |-> Construct("undefined", EmptyEnv, processEnv)]
  /\ console = NativeConsole
  /\ logger = NoLogger
  /\ snapshot = NoSnapshot

PatchNext ==
  \/ PatchConsole(DefaultOptions)
  \/ UnpatchConsole
  \/ \E method \in Methods, fn \in ProgramFunctions : AssignConsole(method, fn)

PatchSpec == ConsoleInit /\ [][PatchNext]_vars

(* console calls through the global logger *)

\* the options given to patchConsole: stream is process.stderr,
\* process.stdout or another writable stream
ConsoleOptions ==
  [enabled : BOOLEAN, level : LogLevel, stream : {"stderr", "stdout", "custom"}]

ConsoleNext ==
  \/ \E options \in ConsoleOptions : PatchConsole(options)
  \/ UnpatchConsole
  \/ \E method \in Methods : ConsoleCall(method)

ConsoleSpec == ConsoleInit /\ [][ConsoleNext]_vars

(* a logger created by createLogger, with or without a log file *)

\* the options of createLogger, after the defaults of lines 112-123
LoggerOptions == [enabled : BOOLEAN, level : LogLevel, logFile : BOOLEAN]

LoggerInit ==
  /\ state = [c \in Clients |-> [client |-> 0, transport |-> 0, serverInfo |-> NULL]]
  /\ sessions = <<>>
  /\ calls = [c \in Clients |-> [k \in Callers |-> Idle]]
  /\ processEnv = EmptyEnv
  /\ config = [c \in Clients |-> Construct("undefined", EmptyEnv, processEnv)]
  /\ console = NativeConsole
  /\ snapshot = NoSnapshot
  /\ \E options \in LoggerOptions : logger = NewLogger(options)

LoggerNext ==
  \/ \E level \in LogLevel : Log(level)
  \/ \E opened \in BOOLEAN : OpenResume(opened)
  \/ \E written \in BOOLEAN : WriteResume(written)
  \/ CloseCall
  \/ CloseFlushed
  \/ CloseResume

LoggerSpec == LoggerInit /\ [][LoggerNext]_vars


(* ------------------------------- claims -------------------------------- *)

\* the step in which slot k of client c starts a call of one of ops
Starts(c, k, ops) ==
  calls[c][k].pc = "idle" /\ calls'[c][k].pc # "idle" /\ calls'[c][k].op \in ops

\* a settled call of op is waiting in some slot of client A
Settled(k, op) == calls["A"][k].pc = "done" /\ calls["A"][k].op = op

\* C1: connect() on an instance that holds a session (its handshake pending or
\* completed) rejects at once with a message containing "Already connected",
\* creates no session or subprocess and leaves the client state as it was.
C1_ConnectRejectedWhileHolding ==
  [][\A c \in Clients, k \in Callers :
       (Starts(c, k, {"connect"}) /\ state[c].client # 0)
         => /\ calls'[c][k].pc = "done"
            /\ ~calls'[c][k].out.ok
            /\ Contains(calls'[c][k].out.error.message, <<"Already connected">>)
            /\ calls'[c][k].sess = 0
            /\ sessions' = sessions
            /\ state' = state]_vars

\* a connect() was rejected while another connect() awaits its handshake
C1_Witness ==
  \E k, j \in Callers :
    /\ Settled(k, "connect")
    /\ ~calls["A"][k].out.ok
    /\ calls["A"][k].out.error = AlreadyConnectedError
    /\ calls["A"][j].pc = "connecting"
    /\ ~state["A"].initialized

\* C2: on an instance that is not connected every facade method rejects at
\* once with "Not connected to server. Call connect() first.", issues no
\* request to a session and changes neither the client state nor a session.
C2_FacadeRejectsWhenNotConnected ==
  [][\A c \in Clients, k \in Callers :
       (Starts(c, k, FacadeOps) /\ ~(state[c].client # 0 /\ state[c].initialized))
         => /\ calls'[c][k].pc = "done"
            /\ ~calls'[c][k].out.ok
            /\ calls'[c][k].out.error.message
                 = <<"Not connected", " to server. Call connect() first.">>
            /\ calls'[c][k].sess = 0
            /\ sessions' = sessions
            /\ state' = state]_vars

\* readResource was rejected on an instance whose only session is gone
C2_Witness ==
  /\ Settled("p", "readResource")
  /\ calls["A"]["p"].out.error = NotConnectedError
  /\ Len(sessions) = 1
  /\ state["A"] = EmptyState

\* C3: when connect() rejects after a failed attempt the state is empty, the
\* session the attempt created has no subprocess running, and the error is
\* the ConnectionError "Failed to connect to server" with command, args and
\* the original message.
C3_FailedConnectReleasesEverything ==
  \A k \in Callers :
    (Settled(k, "connect") /\ ~calls["A"][k].out.ok
       /\ calls["A"][k].out.error # AlreadyConnectedError)
      => /\ state["A"] = EmptyState
         /\ calls["A"][k].out.error.name = "ConnectionError"
         /\ calls["A"][k].out.error.message = <<"Failed to connect to server">>
         /\ {"command", "args", "originalError"}
              \subseteq DOMAIN calls["A"][k].out.error.context
         /\ calls["A"][k].sess # 0 => sessions[calls["A"][k].sess].proc # "running"

\* C4: the server info is non-null exactly when the client is connected, in
\* every state; and the step in which connect() resolves leaves the client
\* connected with its server info set.
C4_ServerInfoIffConnected ==
  /\ [](\A c \in Clients :
          (state[c].serverInfo # NULL) <=> (state[c].client # 0 /\ state[c].initialized))
  /\ [][\A c \in Clients, k \in Callers :
          (calls[c][k].pc = "connecting" /\ calls'[c][k].pc = "done"
             /\ calls'[c][k].out.ok)
            => /\ state'[c].client # 0 /\ state'[c].initialized
               /\ state'[c].serverInfo # NULL]_vars

\* connect() resolved against a server that names no version
C4_Witness ==
  \E k \in Callers :
    /\ Settled(k, "connect")
    /\ calls["A"][k].out.ok
    /\ state["A"].initialized
    /\ state["A"].serverInfo = [name |-> "unknown", version |-> "unknown"]

\* C5: when disconnect() on a connected client has resolved, the session is
\* closed and its subprocess terminated, and the state is empty.
C5_DisconnectTerminates ==
  \A k \in Callers :
    (Settled(k, "disconnect") /\ calls["A"][k].sess # 0)
      => /\ calls["A"][k].out.ok
         /\ state["A"] = EmptyState
         /\ sessions[calls["A"][k].sess].closed
         /\ sessions[calls["A"][k].sess].proc # "running"

\* C6: disconnect() on an instance that holds no session resolves at once,
\* calls close() on no session and changes neither the client state nor a
\* session.
C6_DisconnectIdempotent ==
  [][\A c \in Clients, k \in Callers :
       (Starts(c, k, {"disconnect"}) /\ state[c].client = 0)
         => /\ calls'[c][k].pc = "done"
            /\ calls'[c][k].out.ok
            /\ calls'[c][k].sess = 0
            /\ sessions' = sessions
            /\ state' = state]_vars

\* a disconnect() found nothing to close after the session had been closed
C6_Witness ==
  \E k \in Callers :
    /\ Settled(k, "disconnect")
    /\ calls["A"][k].out.ok
    /\ calls["A"][k].sess = 0
    /\ Len(sessions) = 1
    /\ sessions[1].closed
    /\ state["A"] = EmptyState

\* the isError flag of a result is set
Flagged(result) == "isError" \in DOMAIN result /\ result.isError = TRUE

C8_ExpectToolCallError ==
  \A k \in Callers :
    Settled(k, "expectToolCallError")
      => LET call == calls["A"][k]
             returns == call.resp # NULL /\ call.resp.ok /\ ~Flagged(call.resp.value)
         IN
         IF returns
         THEN /\ ~call.out.ok
              /\ call.out.error.name = "AssertionError"
              /\ Contains(call.out.error.message,
                          <<"Expected tool '", call.name, "' to fail, but it succeeded">>)
              /\ call.out.error.context.toolName = call.name
              /\ call.out.error.context.params = call.params
         ELSE /\ call.out.ok
              /\ call.out.value.name \in {"ToolCallError", "ConnectionError"}
              /\ call.out.value =
                   IF call.resp = NULL THEN NotConnectedError
                   ELSE CallToolOutcome(call.name, call.params, call.resp).error

\* expectToolCallError rejected because the tool succeeded
C8_Witness ==
  /\ Settled("p", "expectToolCallError")
  /\ calls["A"]["p"].resp # NULL
  /\ calls["A"]["p"].resp.ok
  /\ ~calls["A"]["p"].out.ok
  /\ calls["A"]["p"].params # Undefined

\* C9: expectToolCallSuccess returns the parsed value when the result is one
\* text item whose text starts with '{' or '[' and parses, the text itself
\* when that one text item does not start so or does not parse, and the
\* whole result for any other content.
C9_ExpectToolCallSuccess ==
  \A k \in Callers :
    (Settled(k, "expectToolCallSuccess") /\ calls["A"][k].out.ok)
      => LET result == calls["A"][k].resp.value
             value == calls["A"][k].out.value
             single == Len(result.content) = 1 /\ result.content[1].type = "text"
         IN
         IF single
         THEN LET text == result.content[1].text
                  looksLikeJson == Len(text) > 0 /\ text[1] \in {"{", "["}
              IN
              IF looksLikeJson /\ JSONparse(text).ok
              THEN value.kind = "parsed" /\ value.v = JSONparse(text).val
              ELSE value.kind = "text" /\ value.v = text
         ELSE value.kind = "result" /\ value.v = result

\* expectToolCallSuccess returned the array parsed from the text [1]
C9_Witness ==
  /\ Settled("p", "expectToolCallSuccess")
  /\ calls["A"]["p"].out.ok
  /\ calls["A"]["p"].out.value.kind = "parsed"
  /\ calls["A"]["p"].out.value.v = [t |-> "array", items |-> <<[t |-> "number", n |-> 1]>>]

\* the names of tools in their order, separated by ", "
NamesJoined(tools) ==
  [i \in 1..(2 * Len(tools) - 1) |->
     IF i % 2 = 1 THEN tools[(i + 1) \div 2].name ELSE ", "]

\* C10: expectToolExists returns the first listed tool of that name; when
\* there is none it rejects with a TOOL_NOT_FOUND error whose message
\* contains the name and the names of the listed tools in their order
\* joined by ", ", or "none" for an empty list.
C10_ExpectToolExists ==
  \A k \in Callers :
    (Settled(k, "expectToolExists") /\ calls["A"][k].resp # NULL
       /\ calls["A"][k].resp.ok)
      => LET call == calls["A"][k]
             tools == call.resp.value.tools
             hits == { i \in 1..Len(tools) : tools[i].name = call.name }
         IN
         IF hits # {}
         THEN /\ call.out.ok
              /\ \E i \in hits : /\ \A j \in hits : i <= j
                                 /\ call.out.value = tools[i]
         ELSE /\ ~call.out.ok
              /\ call.out.error.code = "TOOL_NOT_FOUND"
              /\ Contains(call.out.error.message, <<call.name>>)
              /\ Contains(call.out.error.message,
                          IF Len(tools) = 0 THEN <<"none">> ELSE NamesJoined(tools))

\* expectToolExists('missing') rejected against the tools echo, add
C10_Witness ==
  /\ Settled("p", "expectToolExists")
  /\ calls["A"]["p"].name = "missing"
  /\ calls["A"]["p"].resp # NULL
  /\ calls["A"]["p"].resp.ok
  /\ Len(calls["A"]["p"].resp.value.tools) = 2
  /\ calls["A"]["p"].resp.value.tools[1].name = "echo"
  /\ calls["A"]["p"].resp.value.tools[2].name = "add"
  /\ ~calls["A"]["p"].out.ok

\* the sessions created by the connect() calls of client c
SessionsOf(c) == { i \in 1..Len(sessions) : sessions[i].owner = c }

\* C11: two independently constructed clients do not interfere: a step of a
\* call of one client leaves the other client's state, negotiated server
\* info, calls and sessions as they were, and every call of a client is
\* made on, and settled by the response of, a session of that client.
C11_ClientsIndependent ==
  [][\A c, o \in Clients :
       (o # c /\ calls'[c] # calls[c])
         => /\ state'[o] = state[o]
            /\ getServerInfo(o)' = getServerInfo(o)
            /\ isConnected(o)' = isConnected(o)
            /\ calls'[o] = calls[o]
            /\ \A i \in SessionsOf(o) : sessions'[i] = sessions[i]
            /\ \A k \in Callers :
                 calls'[c][k].sess # 0 => sessions'[calls'[c][k].sess].owner = c
            /\ state'[c].client # 0 => sessions'[state'[c].client].owner = c]_vars

\* both clients are connected, each to its own session, and a callTool of A
\* has resolved with its server's result while a callTool of B is in flight
C11_Witness ==
  /\ isConnected("A") /\ isConnected("B")
  /\ state["A"].client # state["B"].client
  /\ state["A"].serverInfo # state["B"].serverInfo
  /\ calls["A"]["p"].pc = "done" /\ calls["A"]["p"].op = "callTool"
  /\ calls["A"]["p"].out.ok
  /\ calls["A"]["p"].sess = state["A"].client
  /\ calls["B"]["p"].pc = "requesting"
  /\ calls["B"]["p"].sess = state["B"].client

\* the errors the try block of connect() can catch
ConnectCaught ==
  SdkErrors \cup {TypeErrorNull} \cup { CtorError(f) : f \in ConnectFaults \ {"none"} }

\* error e keeps the message or the name of the failure under it
Retains(e, under) ==
  \/ Contains(e.message, under.message)
  \/ /\ "originalError" \in DOMAIN e.context
     /\ e.context.originalError \in {under.message, <<under.name>>}

\* C12: every error connect() or a facade method rejects with is an
\* MCPTestError with a code of the taxonomy; it keeps the message or the name
\* of the failure it wraps, as its message or in its context; and the
\* ToolCallError thrown inside callTool reaches the caller as it was thrown.
C12_ErrorsAreClassified ==
  \A k \in Callers :
    LET call == calls["A"][k] IN
    (call.pc = "done" /\ call.op \in FacadeOps \cup {"connect"} /\ ~call.out.ok)
      => LET e == call.out.error IN
         /\ isMCPTestError(e)
         /\ e.code \in MCPTestErrorCode
         /\ (call.resp # NULL /\ ~call.resp.ok) => Retains(e, call.resp.error)
         /\ (call.resp # NULL /\ call.resp.ok)
              => e = ToolCallError(call.name, <<"Tool returned an error">>,
                                   [result |-> call.resp.value])
         /\ (call.op = "connect" /\ e # AlreadyConnectedError)
              => \E under \in ConnectCaught : Retains(e, under)

\* readResource rejected after the session threw a value that is no Error:
\* the error has the default message and keeps the value in its context
C12_Witness ==
  /\ Settled("p", "readResource")
  /\ calls["A"]["p"].resp # NULL
  /\ ~calls["A"]["p"].resp.ok
  /\ ~calls["A"]["p"].resp.error.inst
  /\ ~calls["A"]["p"].out.ok
  /\ calls["A"]["p"].out.error.name = "MCPTestError"
  /\ calls["A"]["p"].out.error.message = <<"Failed to read resource: ", "echo">>
  /\ calls["A"]["p"].out.error.context.originalError = <<"oops">>

\* C13: the step in which disconnect() settles after close() was called on
\* its session resolves, whatever close() did, and leaves the subprocess of
\* that session terminated.
C13_DisconnectAlwaysTerminates ==
  [][\A c \in Clients, k \in Callers :
       (calls[c][k].pc = "closing" /\ calls[c][k].op = "disconnect"
          /\ calls'[c][k].pc = "done")
         => /\ calls'[c][k].out.ok
            /\ sessions'[calls[c][k].sess].proc # "running"]_vars

\* C14: when disconnect() has settled after close() was called on a session
\* on which a facade request was in flight, it has resolved, the client is
\* disconnected, the request is still pending or has settled with a result or
\* an error of the taxonomy, and the subprocess of the session is not running.
C14_DisconnectDuringRequest ==
  \A k, j \in Callers :
    LET d == calls["A"][k]
        f == calls["A"][j] IN
    (d.pc = "done" /\ d.op = "disconnect" /\ d.sess # 0
       /\ f.op \in FacadeOps /\ f.sess = d.sess)
      => /\ d.out.ok
         /\ ~isConnected("A")
         /\ state["A"] = EmptyState
         /\ f.pc \in {"requesting", "done"}
         /\ (f.pc = "done" /\ ~f.out.ok) => f.out.error.code \in MCPTestErrorCode
         /\ sessions[d.sess].proc # "running"

\* some entry of the context of error e holds the key
KeyInContext(e, key) ==
  \E f \in DOMAIN e.context :
    IF f = "originalError" THEN Contains(e.context[f], <<key>>)
    ELSE e.context[f] = key

\* C15: when readResource(uri) or getPrompt(name) was rejected after its
\* request failed, the context of the error holds the uri, or the name.
C15_KeyInErrorContext ==
  \A k \in Callers :
    LET call == calls["A"][k] IN
    (call.pc = "done" /\ call.op \in {"readResource", "getPrompt"}
       /\ call.resp # NULL /\ ~call.resp.ok)
      => /\ ~call.out.ok
         /\ KeyInContext(call.out.error, call.name)

\* C16: the code of the error tells the scenarios apart: ALREADY_CONNECTED
\* when connect() is rejected on an instance that holds a session,
\* NOT_CONNECTED when a facade call is rejected without a request being
\* issued, CONNECTION_FAILED when the spawn or the handshake failed.
C16_CodesDistinguishScenarios ==
  \A k \in Callers :
    LET call == calls["A"][k] IN
    (call.pc = "done" /\ ~call.out.ok)
      => /\ (call.op = "connect" /\ call.sess = 0
               /\ Contains(call.out.error.message, <<"Already connected">>))
              => call.out.error.code = "ALREADY_CONNECTED"
         /\ (call.op \in FacadeOps /\ call.sess = 0)
              => call.out.error.code = "NOT_CONNECTED"
         /\ (call.op = "connect" /\ call.sess # 0)
              => call.out.error.code = "CONNECTION_FAILED"

\* C17: the message of the error expectToolCallError returns contains the
\* error text of the server: the text of the first content item of a result
\* flagged isError, or the message of the protocol error the request failed
\* with.
C17_ReturnedErrorHasServerText ==
  \A k \in Callers :
    LET call == calls["A"][k] IN
    (call.pc = "done" /\ call.op = "expectToolCallError"
       /\ call.resp # NULL /\ call.out.ok)
      => /\ (call.resp.ok /\ IsError(call.resp.value)
               /\ Len(call.resp.value.content) > 0
               /\ call.resp.value.content[1].type = "text")
              => Contains(call.out.value.message, call.resp.value.content[1].text)
         /\ (~call.resp.ok /\ call.resp.error.inst)
              => Contains(call.out.value.message, call.resp.error.message)

\* client c has connected before: a session of it exists that it holds no more
Reconnecting(c) == SessionsOf(c) \ {state[c].client} # {}

\* C18: an instance that has been disconnected can be connected again.  While
\* it holds no session a facade call is rejected as not connected and
\* connect() is not rejected as already connected; when a later connect()
\* resolves the client is connected to the new session with the server info
\* and capabilities that session negotiated; and a facade call made then is
\* issued to the new session.
C18_Reconnect ==
  [][\A c \in Clients, k \in Callers :
       Reconnecting(c)
         => /\ (Starts(c, k, FacadeOps) /\ state[c].client = 0)
                 => /\ calls'[c][k].pc = "done"
                    /\ calls'[c][k].out = Rejected(NotConnectedError)
            /\ (Starts(c, k, {"connect"}) /\ state[c].client = 0)
                 => \/ calls'[c][k].pc = "connecting"
                       /\ calls'[c][k].sess = Len(sessions) + 1
                       /\ sessions'[calls'[c][k].sess] = NewSession(c)
                    \/ calls'[c][k].pc = "done"
                       /\ calls'[c][k].out.error # AlreadyConnectedError
            /\ (calls[c][k].pc = "connecting" /\ calls'[c][k].pc = "done"
                   /\ calls'[c][k].out.ok)
                 => LET s == calls[c][k].sess IN
                    /\ isConnected(c)'
                    /\ state'[c].client = s
                    /\ state'[c].serverInfo
                         = Negotiated(EmptyState, sessions'[s]).serverInfo
                    /\ state'[c].serverCapabilities
                         = Negotiated(EmptyState, sessions'[s]).serverCapabilities
            /\ (Starts(c, k, FacadeOps) /\ isConnected(c))
                 => /\ calls'[c][k].pc = "requesting"
                    /\ calls'[c][k].sess = state[c].client]_vars

\* the instance is connected to its second session, whose server names
\* itself as the first one did not, the first session is closed, and
\* listTools has resolved on the second
C18_Witness ==
  /\ Len(sessions) = 2
  /\ sessions[1].closed /\ sessions[1].version = UnnamedVersion
  /\ isConnected("A") /\ state["A"].client = 2
  /\ state["A"].serverInfo = [name |-> "srv", version |-> "1.0"]
  /\ Settled("p", "listTools")
  /\ calls["A"]["p"].sess = 2
  /\ calls["A"]["p"].out.ok

\* client c has been connected by a session it holds no more (sequential
\* caller: a session has a version once its handshake completed)
LeftConnected(c) ==
  \E i \in SessionsOf(c) \ {state[c].client} : sessions[i].version # Undefined

\* C19 as stated: the connection state changes only from Disconnected to
\* Connecting, from Connecting to Connected and from Connected to
\* Disconnected, and an instance that has left Connected does not become
\* connected again.
C19_ForwardOnlyNoReconnect ==
  [][\A c \in Clients :
       ConnState(c)' # ConnState(c)
         => /\ <<ConnState(c), ConnState(c)'>>
                 \in { <<"Disconnected", "Connecting">>,
                       <<"Connecting", "Connected">>,
                       <<"Connected", "Disconnected">> }
            /\ LeftConnected(c) => ConnState(c)' # "Connected"]_vars

\* C19 amended: the connection state changes only from Disconnected to
\* Connecting, from Connecting to Connected or back to Disconnected, and
\* from Connected to Disconnected; Connected is entered from Connecting
\* alone, and every entry into Connecting, the first as a later one, takes a
\* session that did not exist before.
C19_Transitions ==
  [][\A c \in Clients :
       ConnState(c)' # ConnState(c)
         => /\ <<ConnState(c), ConnState(c)'>>
                 \in { <<"Disconnected", "Connecting">>,
                       <<"Connecting", "Connected">>,
                       <<"Connecting", "Disconnected">>,
                       <<"Connected", "Disconnected">> }
            /\ ConnState(c)' = "Connected" => ConnState(c) = "Connecting"
            /\ ConnState(c)' = "Connecting"
                 => /\ state'[c].client = Len(sessions) + 1
                    /\ Len(sessions') = Len(sessions) + 1]_vars

\* the instance is Connecting for the second time, on a new session, after
\* its first session was connected and closed
C19_Witness ==
  /\ ConnState("A") = "Connecting"
  /\ state["A"].client = 2
  /\ sessions[1].version # Undefined
  /\ sessions[1].closed
  /\ calls["A"]["p"].pc = "connecting"

\* C20: the environment given to the subprocess is the one computed at
\* construction, whatever the process environment has become since: it has
\* the user's variables with the user's values, and besides them
\* NODE_V8_COVERAGE exactly when, at construction, enableCoverage was not
\* false and the parent had a non-empty NODE_V8_COVERAGE or NYC_CONFIG or
\* COVERAGE equal to 'true'; its value is then the parent's non-empty
\* NODE_V8_COVERAGE of that time, or './coverage/tmp'.
C20_CoverageEnv ==
  \A c \in Clients :
    LET env == config[c].env
        user == config[c].userEnv
        parent == config[c].parentEnv
        has(n) == n \in DOMAIN parent /\ parent[n] # ""
        active == \/ has("NODE_V8_COVERAGE")
                  \/ has("NYC_CONFIG")
                  \/ ("COVERAGE" \in DOMAIN parent /\ parent["COVERAGE"] = "true")
        injected == active /\ config[c].enableCoverage # "false"
    IN
    /\ DOMAIN env = DOMAIN user
                       \cup (IF injected THEN {"NODE_V8_COVERAGE"} ELSE {})
    /\ \A n \in DOMAIN user : env[n] = user[n]
    /\ (injected /\ "NODE_V8_COVERAGE" \notin DOMAIN user)
         => env["NODE_V8_COVERAGE"]
              = IF has("NODE_V8_COVERAGE") THEN parent["NODE_V8_COVERAGE"]
                ELSE "./coverage/tmp"
    /\ \A i \in SessionsOf(c) : sessions[i].env = env

\* a subprocess was started with the user's NODE_V8_COVERAGE and DEBUG, by a
\* client constructed when coverage was active with another path, and the
\* parent has deleted its NODE_V8_COVERAGE since
C20_Witness ==
  /\ Len(sessions) = 1
  /\ config["A"].parentEnv = [name \in {"NODE_V8_COVERAGE"} |-> "/parent"]
  /\ config["A"].enableCoverage = "undefined"
  /\ "NODE_V8_COVERAGE" \notin DOMAIN processEnv
  /\ sessions[1].env = [name \in {"NODE_V8_COVERAGE", "DEBUG"} |->
                          IF name = "DEBUG" THEN "1" ELSE "/user"]
  /\ isConnected("A")

\* C27: under overlapping connect() and disconnect() calls no session is
\* torn down or dropped by a call that did not create or hold it: a connect()
\* that fails calls close() on the session it created itself, and a
\* cleanup() that completes clears the state only of the session it called
\* close() on, so that a session is dropped only after close() on it.
C27_NoSessionTornDownByAnother ==
  [][\A c \in Clients, k \in Callers :
       /\ (calls[c][k].pc = "connecting" /\ calls'[c][k].pc = "closing")
            => calls'[c][k].sess = calls[c][k].sess
       /\ (calls[c][k].pc = "closing" /\ calls'[c][k].pc = "done")
            => state[c].client \in {0, calls[c][k].sess}]_vars

\* C28: from the start of a disconnect() on a client that holds a session
\* until it settles, isConnected() is false, and a facade method started
\* then is rejected as not connected and issues no request.
C28_NoRequestWhileDisconnecting ==
  [][\A c \in Clients, k, j \in Callers :
       (calls[c][k].pc = "closing" /\ calls[c][k].op = "disconnect")
         => /\ ~isConnected(c)
            /\ Starts(c, j, FacadeOps)
                 => /\ calls'[c][j].pc = "done"
                    /\ calls'[c][j].out = Rejected(NotConnectedError)]_vars


\* the names among DEFAULT_EXCLUDE_FIELDS that are not a path
DefaultNames == {"timestamp", "requestId", "executionTime", "cacheKey"}

\* value has a field called one of names, at some depth of objects and arrays
RECURSIVE HasField(_, _)
HasField(value, names) ==
  IF value.t = "leaf" THEN FALSE
  ELSE IF value.t = "arr"
  THEN \E i \in 1..Len(value.items) : HasField(value.items[i], names)
  ELSE \/ DOMAIN value.fields \cap names # {}
       \/ \E k \in DOMAIN value.fields : HasField(value.fields[k], names)

\* the field `field` of value, Absent when value has none
Field(value, field) ==
  IF value.t = "obj" /\ field \in DOMAIN value.fields THEN value.fields[field] ELSE Absent

\* the elements of an array or of an object, by index or key
Elements(value) ==
  IF value.t = "arr" THEN [i \in 1..Len(value.items) |-> value.items[i]]
  ELSE IF value.t = "obj" THEN value.fields
  ELSE <<>>

\* C25: excluding 'nested.field' removes `field` inside `nested` and keeps
\* `nested` with its other fields; excluding 'a.*.b' removes `b` from every
\* element of `a` and keeps `a`, its elements and their other fields
C25_ExclusionRemovesOnlyLeaf ==
  (snapshot.normalized # NULL /\ snapshot.value.t = "obj") =>
    LET before == snapshot.value
        after == snapshot.normalized IN
    /\ (<<"nested", Dot, "field">> \in snapshot.exclude /\ Field(before, "nested") # Absent)
          => /\ Field(after, "nested") # Absent
             /\ Field(Field(after, "nested"), "field") = Absent
             /\ Field(Field(after, "nested"), "b") = Field(Field(before, "nested"), "b")
    /\ (<<"a", Dot, "*", Dot, "b">> \in snapshot.exclude /\ Field(before, "a") # Absent)
          => /\ Field(after, "a") # Absent
             /\ Field(after, "a").t = Field(before, "a").t
             /\ DOMAIN Elements(Field(after, "a")) = DOMAIN Elements(Field(before, "a"))
             /\ \A i \in DOMAIN Elements(Field(before, "a")) :
                  /\ Field(Elements(Field(after, "a"))[i], "b") = Absent
                  /\ Field(Elements(Field(after, "a"))[i], "field")
                       = Field(Elements(Field(before, "a"))[i], "field")

\* C26: the names excluded by default are removed wherever they occur, at any
\* depth of objects and arrays, and a field that no exclusion matches is kept
\* unchanged
C26_DefaultsRemovedAtAnyDepth ==
  snapshot.normalized # NULL =>
    /\ ~HasField(snapshot.normalized, DefaultNames)
    /\ Field(Field(snapshot.normalized, "serverInfo"), "name")
         = Field(Field(snapshot.value, "serverInfo"), "name")
    /\ snapshot.exclude = {} =>
         /\ Field(Field(snapshot.normalized, "nested"), "field")
              = Field(Field(snapshot.value, "nested"), "field")
         /\ Field(Field(snapshot.normalized, "nested"), "b")
              = Field(Field(snapshot.value, "nested"), "b")

\* C21: patchConsole() while patched throws and changes nothing, the saved
\* originals included; unpatchConsole() while not patched does nothing and
\* does not throw; patchConsole() saves the functions installed when it is
\* called and unpatchConsole() installs exactly those again
C21_PatchUnpatch ==
  [][/\ (console.isPatched /\ console'.op = "patchConsole")
          => console' = [console EXCEPT !.op = "patchConsole", !.threw = TRUE]
     /\ (~console.isPatched /\ console'.op = "unpatchConsole")
          => console' = [console EXCEPT !.op = "unpatchConsole", !.threw = FALSE]
     /\ (~console.isPatched /\ console'.isPatched)
          => /\ ~console'.threw
             /\ console'.originalMethods = console.methods
     /\ (console.isPatched /\ ~console'.isPatched)
          => /\ ~console'.threw
             /\ console'.methods = console.originalMethods]_vars

\* a second patchConsole() has thrown and the originals saved by the first
\* one, a function of the program among them, are still the saved ones
C21_Witness ==
  /\ console.op = "patchConsole"
  /\ console.threw
  /\ console.isPatched
  /\ console.originalMethods["log"] = "spy"
  /\ console.methods["log"] = "patched"

\* C22: while the console is patched, a call of console.log / info / warn /
\* error / debug is written to the stream of the logger iff the logger is
\* enabled and the level of the call (info for console.log) is at or above
\* the configured minimum, debug < info < warn < error; and nothing is
\* written to stdout
C22_PatchedCallsNeverOnStdout ==
  [][\A m \in Methods :
       (console.isPatched /\ console.methods[m] = "patched" /\ console'.op = m)
         => LET level == IF m = "log" THEN "info" ELSE m
                order == <<"debug", "info", "warn", "error">>
                Pos(l) == CHOOSE i \in 1..4 : order[i] = l
                emitted == /\ console.globalLogger.enabled
                           /\ Pos(level) >= Pos(console.globalLogger.level)
                stream == console.globalLogger.stream
            IN /\ console'.written[stream] =
                    IF emitted THEN Append(console.written[stream], level)
                    ELSE console.written[stream]
               /\ console'.written["stdout"] = console.written["stdout"]]_vars

\* C22, amended: the call is written to the stream of the logger iff it
\* passes the filter, and no other stream receives anything; stdout receives
\* it only when it is the stream the logger was given
C22_PatchedCallsGoToLoggerStream ==
  [][\A m \in Methods :
       (console.isPatched /\ console.methods[m] = "patched" /\ console'.op = m)
         => LET level == IF m = "log" THEN "info" ELSE m
                order == <<"debug", "info", "warn", "error">>
                Pos(l) == CHOOSE i \in 1..4 : order[i] = l
                emitted == /\ console.globalLogger.enabled
                           /\ Pos(level) >= Pos(console.globalLogger.level)
                stream == console.globalLogger.stream
            IN /\ console'.written[stream] =
                    IF emitted THEN Append(console.written[stream], level)
                    ELSE console.written[stream]
               /\ \A other \in DOMAIN console.written \ {stream} :
                    console'.written[other] = console.written[other]]_vars

\* with minimum level info and the default stream, console.log and
\* console.warn were written to stderr and console.debug was filtered
C22_Witness ==
  /\ console.isPatched
  /\ console.globalLogger = [enabled |-> TRUE, level |-> "info", stream |-> "stderr"]
  /\ console.op = "debug"
  /\ console.written = [s \in {"stdout", "stderr", "custom"} |->
                          IF s = "stderr" THEN <<"info", "warn">> ELSE <<>>]

\* C23: every message queued for the log file before close() was called has
\* been written when close() resolves, and the handle is closed only then
C23_CloseFlushesPending ==
  (logger.closing = "done" \/ logger.file.state = "closed")
    => (~logger.failed => logger.pendingAtClose \subseteq Messages(logger.file.content))

\* C24: with a log file, every message that passes the filter and is logged
\* between createLogger() and close() goes to the stream and to the file,
\* those logged before open() completed included; stated for the runs in
\* which the file was opened, nothing failed, and close() lost nothing of
\* what was pending and closed the handle
C24_StreamAndFile ==
  (logger.options # NULL /\ logger.options.logFile /\ logger.closing = "done"
     /\ logger.file.state = "closed" /\ ~logger.failed
     /\ logger.pendingAtClose \subseteq Messages(logger.file.content))
    => logger.streamAtClose \subseteq Messages(logger.file.content)

\* the messages of a queue are in the order they were logged, none twice
InLogOrder(queue) == \A i, j \in 1..Len(queue) : i < j => queue[i] < queue[j]

\* C29: at most one fileHandle.write is in progress; a write is issued only
\* on an open handle of a logger that is not closed; the messages written,
\* being written and queued are in log order without duplicates
C29_SingleFlightInOrder ==
  [][/\ Len(logger'.writes) <= 1
     /\ Len(logger'.writes) > Len(logger.writes)
          => /\ logger.file.state = "open"
             /\ ~logger.isClosed
             /\ logger.writes = <<>>
     /\ InLogOrder(logger'.file.content \o Flatten(logger'.writes) \o logger'.writeQueue)
     /\ Messages(logger'.file.content) \subseteq Messages(logger'.stream)]_vars

\* three messages were logged while writes were in progress, all are in
\* the file in log order and close() has closed the handle
C29_Witness ==
  /\ logger.file.content = <<1, 2, 3>>
  /\ logger.file.state = "closed"
  /\ logger.closing = "done"

\* C30: once close() has resolved the logger holds no open file handle,
\* whenever close() is called relative to the open() of the constructor;
\* a second close() does nothing
C30_NoHandleAfterClose ==
  [][/\ logger'.closing = "done"
          => /\ logger'.fileHandle = 0
             /\ logger'.file.state # "open"
     /\ (logger.isClosed /\ logger'.closeCalls > logger.closeCalls)
          => logger' = [logger EXCEPT !.closeCalls = @ + 1]]_vars

=============================================================================
